---- MODULE Spec2Model ----
(***************************************************************************)
(* Beat scheduler of the countdown tool: class TimerManager of             *)
(* src/js/ui-manager.js, driven by its callers in src/js/app.js.           *)
(*                                                                         *)
(* Time is counted in ticks of 1/220 s, so that 60/bpm is a whole number   *)
(* of ticks for every tempo used here (15, 60, 110, 300, ...).  The host's *)
(* time advances in steps of half a second, and the audio clock            *)
(* (AudioManager.getCurrentTime) reads it when there is an AudioContext.   *)
(* The one-second interval callbacks run on time; the one-shot timeouts    *)
(* (re-enable, auto-reset) run at some later moment.                       *)
(***************************************************************************)
EXTENDS Integers, Sequences, FiniteSets

VARIABLES
    \* ---- TimerManager fields (constructor, ui-manager.js 1336-1364)
    countdown, originalCountdown, targetDurationMinutes, remainingTimeSeconds,
    bpm, isRunning, isDisabled,
    animationFrameId, timerInterval, disableTimeout,
    scheduledBeats, scheduledVisualBeats,
    nextBeatTime, beatInterval, startTime,
    \* ---- AudioManager.audioContext: was the AudioContext constructed?
    audioContext,
    \* ---- UIManager.elements.disableBtn.disabled
    disableBtn,
    \* ---- host: its time and the callbacks the browser still holds
    now, pendingFrames, activeIntervals, pendingTimeouts, resetTimeouts,
    \* ---- BeatCountdownTimer of app.js: the opening-sound-2 sequence
    openingSound2Audio, openingSound2IsRunning, openingSound2VisualCount,
    openingSound2RemainingBeats, openingSound2NextBeatTime,
    openingSound2AnimationFrameId,
    \* ---- host: the frames and the delay timeouts that sequence has pending
    openingFrames, openingTimeouts,
    \* ---- history: stopAllOpeningSounds was called since the sequence began
    openingStopped,
    \* ---- BeatCountdownTimer of app.js: the WebSocket to the display devices
    ws, wsReconnectAttempts, wsReconnectInterval,
    \* ---- host: the reconnect timeouts pending
    wsTimeouts,
    \* ---- observation of the run (history only, never read by an operation)
    op, calls, completions, snap, lastReleasedTime, releaseOrdered, countdownAtDisable,
    returned, beatSignals

progVars == <<countdown, originalCountdown, targetDurationMinutes, remainingTimeSeconds,
              bpm, isRunning, isDisabled, animationFrameId, timerInterval, disableTimeout,
              scheduledBeats, scheduledVisualBeats, nextBeatTime, beatInterval, startTime>>
hostVars == <<audioContext, disableBtn, now, pendingFrames, activeIntervals, pendingTimeouts, resetTimeouts>>
histVars == <<op, calls, completions, snap, lastReleasedTime, releaseOrdered, countdownAtDisable,
              returned, beatSignals>>
openVars == <<openingSound2Audio, openingSound2IsRunning, openingSound2VisualCount,
              openingSound2RemainingBeats, openingSound2NextBeatTime,
              openingSound2AnimationFrameId, openingFrames, openingTimeouts,
              openingStopped>>
wsVars == <<ws, wsReconnectAttempts, wsReconnectInterval, wsTimeouts>>
vars == <<progVars, hostVars, histVars, openVars, wsVars>>

----------------------------------------------------------------------------
\* Program constants

\* this.lookaheadTime = 0.5 s, in ticks
lookaheadTime == 110
TicksPerSecond == 2 * lookaheadTime
\* the audio clock is observed every half second, one lookahead window
ClockStep == lookaheadTime
\* app.js startOpeningSound2VisualSequence: openingSound2VisualCount = 32 at
\* openingSound2Bpm = 60, one beat a second
openingVisualBeats == 32
openingSound2BeatInterval == TicksPerSecond
\* app.js constructor: this.maxWsReconnectAttempts = 10; scheduleWebSocketReconnect:
\* Math.min(1000 * Math.pow(2, attempts), 30000) milliseconds
maxWsReconnectAttempts == 10
maxWsReconnectDelay == 30000
\* app.js: "Always start at 110 BPM", "Always reset to 110 BPM"
startingBpm == 110
\* BPMConfig of bpm-config.js
MIN_BPM == 15
MAX_BPM == 300
\* the literals of setToRequiredBpm, multiplyBpm and divideBpm
minTempo == 30
maxTempo == 200
\* BeatCountdownTimer.startCountdown of app.js: "a valid duration (1-999
\* minutes)", "a valid total beats (1-9999)"
minDuration == 1
maxDuration == 999
minTotalBeats == 1
maxTotalBeats == 9999

\* Bounds of the model
MaxClockSteps == 2
MaxCalls == 3
MaxLag == 2
MaxFrames == 2
MaxIntervals == 2
MaxQueue == 3
RunSlack == 2

Durations == {1}
StartBpms == {60, startingBpm}
RunBpms == {15, 60, startingBpm}
TempoBpms == {60, 300}
\* what a stopped session may hold, and what updateBpm may be handed
PausedCountdowns == {0, 1, 30, 110}
PausedSeconds == {0 - 1, 0, 1, 16, 30, 60}
PausedBpms == {MIN_BPM, minTempo, 100, 150, maxTempo, MAX_BPM}
AnyBpms == {10, 60, 400}
\* what sliderPositionToBpm may give before it is clamped
SliderBpms == {10, 15, 29, 201, 300, 310}
\* what the fields of the setup panel may hold when Start is pressed
EnteredDurations == {0, 1, 1000}
EnteredTotals == {0, 100}
EnteredBpms == {10, 60, 400}

MaxTime == MaxClockSteps * ClockStep
RunLimit == 60 * TicksPerSecond + (2 * MaxLag + RunSlack) * ClockStep
\* the beats of a minute at startingBpm, played at 60 beats a minute
SlowLimit == startingBpm * TicksPerSecond + (2 * MaxLag + RunSlack) * ClockStep

----------------------------------------------------------------------------
\* Arithmetic of the host language

\* Math.ceil(a / b) for a >= 0, b > 0
CeilDiv(a, b) == (a + b - 1) \div b

\* JavaScript a % b: the result takes the sign of the dividend
JsMod(a, b) == IF a >= 0 THEN a % b ELSE 0 - ((0 - a) % b)

\* The numbers of the host language that are not finite: a division by zero
\* gives Infinity, -Infinity or (0/0) NaN.  Infinity is beyond every finite
\* number that occurs here; NaN is ordered with nothing.
Infinity == 1000000
NaN == 0 - 2 * Infinity
IsFinite(x) == x # NaN /\ x # Infinity /\ x # 0 - Infinity

\* Math.min(a, b), Math.max(a, b): NaN if either argument is NaN
MathMin(a, b) == IF a = NaN \/ b = NaN THEN NaN ELSE IF a < b THEN a ELSE b
MathMax(a, b) == IF a = NaN \/ b = NaN THEN NaN ELSE IF a > b THEN a ELSE b

\* a * k for a finite k
Times(a, k) == IF IsFinite(a) THEN a * k ELSE a

RoundDown(num, den) ==
    IF ~IsFinite(num) THEN num
    ELSE IF den = 0 THEN (IF num = 0 THEN NaN ELSE IF num > 0 THEN Infinity ELSE 0 - Infinity)
    ELSE IF den > 0 THEN num \div den
    ELSE (0 - num) \div (0 - den)

\* Math.round(num / den): the nearest integer, a half goes up
Round(num, den) ==
    IF ~IsFinite(num) THEN num
    ELSE IF den = 0 THEN (IF num = 0 THEN NaN ELSE IF num > 0 THEN Infinity ELSE 0 - Infinity)
    ELSE IF den > 0 THEN (2 * num + den) \div (2 * den)
    ELSE (0 - 2 * num - den) \div (0 - 2 * den)

\* BPMConfig.clampBpm(bpm): Math.max(MIN_BPM, Math.min(MAX_BPM, bpm))
clampBpm(b) == MathMax(MIN_BPM, MathMin(MAX_BPM, b))

\* 60 / bpm seconds, in ticks
BeatIntervalOf(b) == (60 * TicksPerSecond) \div b

BeatsOffByOne(seconds, b) == (seconds * b) \div 60 + 1

\* calculateRequiredBeats(): Math.ceil(remainingTimeSeconds * bpm / 60)
calculateRequiredBeats(seconds, b) == CeilDiv(seconds * b, 60)

----------------------------------------------------------------------------
\* AudioManager.getCurrentTime(): audioContext ? audioContext.currentTime : 0
getCurrentTime == IF audioContext THEN now ELSE 0

----------------------------------------------------------------------------
\* Host handles: requestAnimationFrame / setInterval / setTimeout return a
\* handle that no live callback holds.

NewId(used) == CHOOSE i \in 1..(Cardinality(used) + 1) :
                  i \notin used /\ \A j \in 1..(i - 1) : j \in used

\* cancelAnimationFrame(this.animationFrameId) on a set of pending frames
CancelFrame(frames) == {f \in frames : f.id # animationFrameId}
\* clearInterval(this.timerInterval) on a set of active intervals
ClearInterval(intervals) == {i \in intervals : i.id # timerInterval}
\* setInterval(..., 1000) on a set of active intervals
SetInterval(intervals) ==
    LET id == NewId({i.id : i \in intervals})
    IN  [intervals |-> intervals \cup {[id |-> id, due |-> now + TicksPerSecond]}, id |-> id]
RequestNothing(frames) == [frames |-> frames, id |-> 0]

\* requestAnimationFrame(...) on a set of pending frames
RequestFrame(frames) ==
    LET id == NewId({f.id : f \in frames})
    IN  [frames |-> frames \cup {[id |-> id, since |-> now]}, id |-> id]

----------------------------------------------------------------------------
\* scheduleBeats(): the while loop, from the values the caller has set

RECURSIVE scheduleBeatsFromZero(_, _, _, _, _, _)
scheduleBeatsFromZero(nbt, cd, sb, svb, interval, orig) ==
    IF nbt < getCurrentTime + lookaheadTime /\ cd > 0
    THEN LET ev == [time |-> nbt, beatNumber |-> orig - cd, stale |-> FALSE]
         IN  scheduleBeatsFromZero(nbt + interval, cd - 1, Append(sb, ev), Append(svb, ev),
                                   interval, orig)
    ELSE [nextBeatTime |-> nbt, countdown |-> cd,
          scheduledBeats |-> sb, scheduledVisualBeats |-> svb]

RECURSIVE scheduleBeats(_, _, _, _, _, _)
scheduleBeats(nbt, cd, sb, svb, interval, orig) ==
    IF nbt < getCurrentTime + lookaheadTime /\ cd > 0
    THEN LET ev == [time |-> nbt, beatNumber |-> orig - cd + 1, stale |-> FALSE]
         IN  scheduleBeats(nbt + interval, cd - 1, Append(sb, ev), Append(svb, ev),
                           interval, orig)
    ELSE [nextBeatTime |-> nbt, countdown |-> cd,
          scheduledBeats |-> sb, scheduledVisualBeats |-> svb]

\* number of events at the head of q with time <= now (the shift() loops)
RECURSIVE DueCount(_)
DueCount(q) == IF q # <<>> /\ Head(q).time <= getCurrentTime THEN 1 + DueCount(Tail(q)) ELSE 0

\* the events are released one by one; is each later than the one before?
RECURSIVE Increasing(_, _)
Increasing(prev, q) ==
    IF q = <<>> THEN TRUE
    ELSE Head(q).time > prev /\ Increasing(Head(q).time, Tail(q))

NoSnap == [fired |-> FALSE]

\* history: the calls of triggerBeatAnimation() and the events shifted off
\* scheduledBeats by the operation that ran last
Quiet == [invoked |-> 0, released |-> 0]

----------------------------------------------------------------------------
\* the fields the constructor of BeatCountdownTimer (app.js) sets
BeatCountdownTimerConstructed ==
    /\ openingSound2Audio = FALSE /\ openingSound2IsRunning = FALSE
    /\ openingSound2VisualCount = 0 /\ openingSound2RemainingBeats = 0
    /\ openingSound2NextBeatTime = 0 /\ openingSound2AnimationFrameId = 0
    /\ openingFrames = {} /\ openingTimeouts = 0 /\ openingStopped = FALSE
    /\ ws = "null" /\ wsReconnectAttempts = 0 /\ wsReconnectInterval = 0
    /\ wsTimeouts = {}

\* the TimerManager the constructor leaves
Constructed ==
    /\ countdown = 0 /\ originalCountdown = 0
    /\ targetDurationMinutes = 30 /\ remainingTimeSeconds = 0
    /\ bpm = 120 /\ isRunning = FALSE /\ isDisabled = FALSE
    /\ animationFrameId = 0 /\ timerInterval = 0 /\ disableTimeout = 0
    /\ scheduledBeats = <<>> /\ scheduledVisualBeats = <<>>
    /\ nextBeatTime = 0 /\ beatInterval = 0 /\ startTime = 0
    /\ now = 0 /\ pendingFrames = {} /\ activeIntervals = {}
    /\ pendingTimeouts = {} /\ resetTimeouts = 0
    /\ op = "init" /\ calls = 0 /\ completions = 0 /\ snap = NoSnap
    /\ lastReleasedTime = -1 /\ releaseOrdered = TRUE /\ countdownAtDisable = -1
    /\ returned = 0 /\ beatSignals = Quiet
    /\ disableBtn = FALSE
    /\ BeatCountdownTimerConstructed

\* initializeAudio() has constructed the AudioContext
Init == Constructed /\ audioContext = TRUE

----------------------------------------------------------------------------
\* startCountdown(targetDurationMinutes, initialBpm, selectedSound)
startCountdown(d, b) ==
    /\ Cardinality(pendingFrames) < MaxFrames
    /\ Cardinality(activeIntervals) < MaxIntervals
    /\ Len(scheduledBeats) < MaxQueue
    /\ LET total == calculateRequiredBeats(d * 60, b)
           s     == scheduleBeats(getCurrentTime, total, scheduledBeats, scheduledVisualBeats,
                                  BeatIntervalOf(b), total)
           r     == RequestFrame(pendingFrames)
           iv    == SetInterval(activeIntervals)
       IN  /\ targetDurationMinutes' = d
           /\ remainingTimeSeconds' = d * 60
           /\ bpm' = b
           /\ originalCountdown' = total
           /\ isRunning' = TRUE
           \* startTimer
           /\ beatInterval' = BeatIntervalOf(b)
           /\ startTime' = getCurrentTime
           /\ nextBeatTime' = s.nextBeatTime
           /\ countdown' = s.countdown
           /\ scheduledBeats' = s.scheduledBeats
           /\ scheduledVisualBeats' = s.scheduledVisualBeats
           /\ pendingFrames' = r.frames
           /\ animationFrameId' = r.id
           \* startCountdownTimer
           /\ activeIntervals' = iv.intervals
           /\ timerInterval' = iv.id
    /\ UNCHANGED <<isDisabled, disableTimeout, now, pendingTimeouts, resetTimeouts>>
    /\ op' = "start" /\ completions' = 0 /\ snap' = NoSnap
    \* startTimer: "Trigger first beat animation immediately"
    /\ beatSignals' = [invoked |-> 1, released |-> 0]
    /\ countdownAtDisable' = -1
    /\ UNCHANGED <<lastReleasedTime, releaseOrdered, returned, audioContext, disableBtn,
                   wsVars>>

\* the audio clock moves on; a requested frame is served within MaxLag steps
Advance(limit) ==
    /\ now + ClockStep <= limit
    /\ \A f \in pendingFrames : now - f.since < MaxLag * ClockStep
    /\ \A i \in activeIntervals : now < i.due
    /\ now' = now + ClockStep
    /\ op' = "other" /\ beatSignals' = Quiet
    /\ UNCHANGED <<progVars, pendingFrames, activeIntervals, pendingTimeouts, resetTimeouts,
                   completions, snap, lastReleasedTime, releaseOrdered, countdownAtDisable,
                   returned, audioContext, disableBtn,
                   openVars, wsVars>>

\* a call of the public interface; a callback of the host
Called == calls < MaxCalls /\ calls' = calls + 1
Hosted == UNCHANGED calls

StopLeavesRunning(frames) ==
    /\ pendingFrames' = CancelFrame(frames)
    /\ animationFrameId' = 0
    /\ activeIntervals' = ClearInterval(activeIntervals)
    /\ timerInterval' = 0
    /\ pendingTimeouts' = pendingTimeouts \ {disableTimeout}
    /\ disableTimeout' = 0
    /\ isRunning' = isRunning
    /\ isDisabled' = FALSE

\* stopCountdown(): what it assigns, given the frames still pending
StopEffects(frames) ==
    /\ pendingFrames' = CancelFrame(frames)
    /\ animationFrameId' = 0
    /\ activeIntervals' = ClearInterval(activeIntervals)
    /\ timerInterval' = 0
    /\ pendingTimeouts' = pendingTimeouts \ {disableTimeout}
    /\ disableTimeout' = 0
    /\ isRunning' = FALSE
    /\ isDisabled' = FALSE

KeptAll(q) == q

\* updateBpm(): this.scheduledBeats = []; this.scheduledVisualBeats = []
KeptOnTempoChange(q) == <<>>

\* history: whatever outlives a tempo change was queued under the old tempo
AsOld(q) == [k \in 1..Len(q) |-> [q[k] EXCEPT !.stale = TRUE]]

\* updateBpm(): currentTime + (beatInterval - (timeSinceLastBeat % beatInterval))
NextBeatAfterTempoChange(timeSinceLastBeat, interval) ==
    getCurrentTime + (interval - JsMod(timeSinceLastBeat, interval))

SessionOverOrTimeUp == countdown <= 0 \/ remainingTimeSeconds <= 0

SessionNeverOver == FALSE

\* schedulerLoop(): if (this.countdown <= 0)
SessionOver == countdown <= 0

\* schedulerLoop(): the frame callback f runs
schedulerLoop(f) ==
    /\ f \in pendingFrames
    /\ UNCHANGED <<returned, audioContext, disableBtn,
                   openVars, wsVars>>
    /\ IF ~isRunning
       THEN /\ pendingFrames' = pendingFrames \ {f}
            /\ op' = "other" /\ beatSignals' = Quiet
            /\ UNCHANGED <<progVars, now, activeIntervals, pendingTimeouts, resetTimeouts,
                           completions, snap, lastReleasedTime, releaseOrdered,
                           countdownAtDisable>>
       ELSE LET nv       == DueCount(scheduledVisualBeats)
                na       == DueCount(scheduledBeats)
                released == SubSeq(scheduledBeats, 1, na)
                svb      == SubSeq(scheduledVisualBeats, nv + 1, Len(scheduledVisualBeats))
                sb       == SubSeq(scheduledBeats, na + 1, Len(scheduledBeats))
            IN  /\ lastReleasedTime' = IF na > 0 THEN released[na].time ELSE lastReleasedTime
                /\ releaseOrdered' = Increasing(lastReleasedTime, released)
                \* this.triggerBeatAnimation() for every event shifted off
                /\ beatSignals' = [invoked |-> na, released |-> na]
                /\ IF SessionOver
                   THEN \* stopCountdown(); showCompletion(); return
                        /\ StopEffects(pendingFrames \ {f})
                        /\ scheduledBeats' = sb
                        /\ scheduledVisualBeats' = svb
                        /\ resetTimeouts' = resetTimeouts + 1
                        /\ completions' = IF completions < 2 THEN completions + 1 ELSE 2
                        /\ snap' = [fired |-> TRUE, countdown |-> countdown,
                                    isRunning |-> isRunning',
                                    loops |-> Cardinality(pendingFrames'),
                                    queued |-> Len(sb), queuedVisual |-> Len(svb)]
                        /\ op' = "complete"
                        /\ UNCHANGED <<countdown, originalCountdown, targetDurationMinutes,
                                       remainingTimeSeconds, bpm, nextBeatTime, beatInterval,
                                       startTime, now, countdownAtDisable>>
                   ELSE \* scheduleBeats(); requestAnimationFrame(...)
                        LET s == scheduleBeats(nextBeatTime, countdown, sb, svb,
                                               beatInterval, originalCountdown)
                            r == RequestFrame(pendingFrames \ {f})
                        IN  /\ nextBeatTime' = s.nextBeatTime
                            /\ countdown' = s.countdown
                            /\ scheduledBeats' = s.scheduledBeats
                            /\ scheduledVisualBeats' = s.scheduledVisualBeats
                            /\ pendingFrames' = r.frames
                            /\ animationFrameId' = r.id
                            /\ op' = "other"
                            /\ UNCHANGED <<originalCountdown, targetDurationMinutes,
                                           remainingTimeSeconds, bpm, isRunning, isDisabled,
                                           timerInterval, disableTimeout, beatInterval,
                                           startTime, now, activeIntervals, pendingTimeouts,
                                           resetTimeouts, completions, snap,
                                           countdownAtDisable>>

\* startCountdownTimer(): the one-second callback of interval i runs
durationTick(i) ==
    /\ i \in activeIntervals
    /\ now >= i.due
    /\ remainingTimeSeconds' = remainingTimeSeconds - 1
    /\ LET again == (activeIntervals \ {i}) \cup {[i EXCEPT !.due = i.due + TicksPerSecond]}
       IN  IF remainingTimeSeconds - 1 <= 0
           THEN /\ activeIntervals' = ClearInterval(again)
                /\ timerInterval' = 0
           ELSE /\ activeIntervals' = again
                /\ UNCHANGED timerInterval
    /\ op' = "other" /\ beatSignals' = Quiet
    /\ UNCHANGED <<countdown, originalCountdown, targetDurationMinutes, bpm, isRunning,
                   isDisabled, animationFrameId, disableTimeout, scheduledBeats,
                   scheduledVisualBeats, nextBeatTime, beatInterval, startTime,
                   now, pendingFrames, pendingTimeouts, resetTimeouts,
                   completions, snap, lastReleasedTime, releaseOrdered, countdownAtDisable,
                   returned, audioContext, disableBtn,
                   openVars, wsVars>>

\* stopCountdown()
stopCountdown ==
    /\ StopEffects(pendingFrames)
    /\ op' = IF isRunning THEN "stop" ELSE "stopAgain"
    /\ beatSignals' = Quiet
    /\ countdownAtDisable' = -1
    /\ UNCHANGED <<countdown, originalCountdown, targetDurationMinutes, remainingTimeSeconds,
                   bpm, scheduledBeats, scheduledVisualBeats, nextBeatTime, beatInterval,
                   startTime, now, resetTimeouts, completions, snap,
                   lastReleasedTime, releaseOrdered, returned, audioContext, disableBtn,
                   openVars, wsVars>>

\* resumeCountdown(selectedSound)
resumeCountdown ==
    /\ Cardinality(pendingFrames) < MaxFrames
    /\ Cardinality(activeIntervals) < MaxIntervals
    /\ IF countdown > 0
       THEN LET s  == scheduleBeats(getCurrentTime, countdown, <<>>, <<>>,
                                    BeatIntervalOf(bpm), originalCountdown)
                r  == RequestFrame(pendingFrames)
                iv == SetInterval(activeIntervals)
            IN  /\ isRunning' = TRUE
                /\ beatInterval' = BeatIntervalOf(bpm)
                /\ startTime' = getCurrentTime
                /\ nextBeatTime' = s.nextBeatTime
                /\ countdown' = s.countdown
                /\ scheduledBeats' = s.scheduledBeats
                /\ scheduledVisualBeats' = s.scheduledVisualBeats
                /\ pendingFrames' = r.frames
                /\ animationFrameId' = r.id
                /\ activeIntervals' = iv.intervals
                /\ timerInterval' = iv.id
                /\ op' = IF isRunning THEN "resumeRunning" ELSE "other"
                \* startTimer: "Trigger first beat animation immediately"
                /\ beatSignals' = [invoked |-> 1, released |-> 0]
                /\ UNCHANGED <<originalCountdown, targetDurationMinutes,
                               remainingTimeSeconds, bpm, isDisabled, disableTimeout>>
       ELSE /\ op' = "other" /\ beatSignals' = Quiet
            /\ UNCHANGED <<progVars, pendingFrames, activeIntervals>>
    /\ countdownAtDisable' = -1
    /\ UNCHANGED <<now, pendingTimeouts, resetTimeouts, completions, snap,
                   lastReleasedTime, releaseOrdered, returned, audioContext, disableBtn,
                   openVars, wsVars>>

\* resetCountdown(initialBpm): the body after it has been decided who calls
ResetEffects(initialBpm) ==
    /\ StopEffects(pendingFrames)
    /\ countdown' = originalCountdown
    /\ remainingTimeSeconds' = targetDurationMinutes * 60
    /\ bpm' = initialBpm
    /\ countdownAtDisable' = -1 /\ beatSignals' = Quiet
    /\ UNCHANGED <<originalCountdown, targetDurationMinutes, scheduledBeats,
                   scheduledVisualBeats, nextBeatTime, beatInterval, startTime,
                   now, completions, snap, lastReleasedTime, releaseOrdered, returned, audioContext, disableBtn,
                   openVars, wsVars>>

\* BeatCountdownTimer.resetCountdown() of app.js, from the Reset button
resetCountdown ==
    /\ ResetEffects(startingBpm)
    /\ op' = "other"
    /\ UNCHANGED resetTimeouts

\* the timeout armed by showCompletion() calls callbacks.resetCountdown()
autoReset ==
    /\ resetTimeouts > 0
    /\ resetTimeouts' = resetTimeouts - 1
    /\ ResetEffects(startingBpm)
    /\ op' = "other"

\* updateBpm(newBpm, selectedSound): what it assigns
UpdateBpmEffects(newBpm) ==
    /\ bpm' = newBpm
    /\ beatSignals' = Quiet
    /\ IF isRunning
       THEN LET interval          == BeatIntervalOf(newBpm)
                timeSinceLastBeat == getCurrentTime - (nextBeatTime - beatInterval)
            IN  /\ beatInterval' = interval
                /\ scheduledBeats' = AsOld(KeptOnTempoChange(scheduledBeats))
                /\ scheduledVisualBeats' = AsOld(KeptOnTempoChange(scheduledVisualBeats))
                /\ nextBeatTime' = NextBeatAfterTempoChange(timeSinceLastBeat, interval)
       ELSE UNCHANGED <<beatInterval, scheduledBeats, scheduledVisualBeats, nextBeatTime>>
    /\ UNCHANGED <<countdown, originalCountdown, targetDurationMinutes, remainingTimeSeconds,
                   isRunning, isDisabled, animationFrameId, timerInterval, disableTimeout,
                   startTime, hostVars, completions, snap, lastReleasedTime, releaseOrdered,
                   countdownAtDisable, openVars, wsVars>>

\* updateBpm(newBpm, selectedSound), called by the slider and the tempo buttons
updateBpm(newBpm) ==
    /\ UpdateBpmEffects(newBpm)
    /\ op' = IF ~isRunning THEN "other"
             ELSE IF scheduledBeats # <<>> THEN "updateBpmDrop" ELSE "updateBpm"
    /\ UNCHANGED returned

\* calculateRequiredBpm(): Math.round((countdown * 60) / remainingTimeSeconds)
calculateRequiredBpm == Round(countdown * 60, remainingTimeSeconds)

\* updateDisplay(): callbacks.updateDisplay(this.countdown, this.bpm, requiredBpm)
updateDisplay == [countdown |-> countdown, bpm |-> bpm, requiredBpm |-> calculateRequiredBpm]

\* setToRequiredBpm(selectedSound)
setToRequiredBpm ==
    LET requiredBpm == calculateRequiredBpm
        clampedBpm  == MathMax(minTempo, MathMin(maxTempo, requiredBpm))
    IN  /\ UpdateBpmEffects(clampedBpm)
        /\ returned' = clampedBpm
        /\ op' = "setToRequiredBpm"

DoubledUnclamped(b) == Times(b, 2)

\* multiplyBpm(): Math.min(200, this.bpm * 2)
Doubled(b) == MathMin(maxTempo, Times(b, 2))

\* divideBpm(): Math.max(30, Math.round(this.bpm / 2))
Halved(b) == MathMax(minTempo, Round(b, 2))

\* multiplyBpm(selectedSound)
multiplyBpm ==
    /\ UpdateBpmEffects(Doubled(bpm))
    /\ returned' = Doubled(bpm)
    /\ op' = IF bpm = maxTempo THEN "multiplyBpmAtMax" ELSE "multiplyBpm"

\* divideBpm(selectedSound)
divideBpm ==
    /\ UpdateBpmEffects(Halved(bpm))
    /\ returned' = Halved(bpm)
    /\ op' = IF bpm = minTempo THEN "divideBpmAtMin" ELSE "divideBpm"

CannotDisableTwice == isDisabled

\* disableTimer(): "Can't disable if not running or already disabled"
CannotDisable == ~isRunning \/ isDisabled

\* disableTimer()
disableTimer ==
    /\ IF CannotDisable
       THEN /\ op' = "disableNoOp"
            /\ UNCHANGED <<progVars, pendingFrames, pendingTimeouts, countdownAtDisable,
                           disableBtn>>
       ELSE LET t == NewId(pendingTimeouts)
            IN  /\ isDisabled' = TRUE
                /\ pendingFrames' = CancelFrame(pendingFrames)
                /\ animationFrameId' = 0
                /\ scheduledBeats' = <<>>
                /\ scheduledVisualBeats' = <<>>
                /\ pendingTimeouts' = pendingTimeouts \cup {t}
                /\ disableTimeout' = t
                /\ countdownAtDisable' = countdown
                \* callbacks.onTimerDisabled(): updateDisableButton(true)
                /\ op' = "disable" /\ disableBtn' = TRUE
                /\ UNCHANGED <<countdown, originalCountdown, targetDurationMinutes,
                               remainingTimeSeconds, bpm, isRunning, timerInterval,
                               nextBeatTime, beatInterval, startTime>>
    /\ beatSignals' = Quiet
    /\ UNCHANGED <<now, activeIntervals, resetTimeouts, completions, snap,
                   lastReleasedTime, releaseOrdered, returned, audioContext,
                   openVars, wsVars>>

\* the re-enable timeout t fires: enableTimer(), resumeBeatScheduling()
enableTimer(t) ==
    /\ t \in pendingTimeouts
    /\ Cardinality(pendingFrames) < MaxFrames
    /\ pendingTimeouts' = pendingTimeouts \ {t}
    /\ IF ~isDisabled
       THEN /\ op' = "other"
            /\ UNCHANGED <<progVars, pendingFrames, disableBtn>>
       ELSE LET interval          == BeatIntervalOf(bpm)
                timeSinceLastBeat == JsMod(getCurrentTime - startTime, interval)
                r                 == RequestFrame(pendingFrames)
            IN  /\ isDisabled' = FALSE
                /\ disableTimeout' = 0
                /\ beatInterval' = interval
                /\ nextBeatTime' = getCurrentTime + (interval - timeSinceLastBeat)
                /\ pendingFrames' = r.frames
                /\ animationFrameId' = r.id
                \* callbacks.onTimerEnabled(): updateDisableButton(false)
                /\ op' = "enable" /\ disableBtn' = FALSE
                /\ UNCHANGED <<countdown, originalCountdown, targetDurationMinutes,
                               remainingTimeSeconds, bpm, isRunning, timerInterval,
                               scheduledBeats, scheduledVisualBeats, startTime>>
    /\ beatSignals' = Quiet
    /\ UNCHANGED <<now, activeIntervals, resetTimeouts, completions, snap,
                   lastReleasedTime, releaseOrdered, countdownAtDisable, returned,
                   audioContext, openVars, wsVars>>

----------------------------------------------------------------------------------------------------------------------------------------
\* The first MaxClockSteps half seconds of the scheduler under up to MaxCalls
\* calls of its public interface, in any order and at any moment; the clock
\* reads 0 at the first call.  No session
\* is completed this early: completion and the auto-reset that follows it are
\* part of SpecRun.

Next ==
    \/ \E d \in Durations, b \in StartBpms :
          Called /\ startCountdown(d, b) /\ UNCHANGED openVars
    \/ calls > 0 /\ Hosted /\ Advance(MaxTime)
    \/ \E f \in pendingFrames : Hosted /\ schedulerLoop(f)
    \/ \E i \in activeIntervals : Hosted /\ durationTick(i)
    \/ Called /\ stopCountdown
    \/ Called /\ resumeCountdown
    \/ Called /\ resetCountdown
    \/ \E b \in TempoBpms : Called /\ updateBpm(b)
    \/ Called /\ disableTimer
    \/ \E t \in pendingTimeouts : Hosted /\ enableTimer(t)

Spec == Init /\ [][Next]_vars

\* One session: started once when the clock reads 0, then only the two loops
\* (and the auto-reset that follows completion) run
NextRun ==
    \/ \E d \in Durations, b \in RunBpms :
          calls = 0 /\ Called /\ startCountdown(d, b) /\ UNCHANGED openVars
    \/ calls > 0 /\ Hosted /\ Advance(RunLimit)
    \/ \E f \in pendingFrames : Hosted /\ schedulerLoop(f)
    \/ \E i \in activeIntervals : Hosted /\ durationTick(i)
    \/ Hosted /\ autoReset

SpecRun == Init /\ [][NextRun]_vars

\* the same session on a host that keeps its promises: the clock goes on, a
\* frame that was requested is served and an interval that is due is run
SpecRunFair ==
    /\ SpecRun
    /\ WF_vars(calls > 0 /\ Hosted /\ Advance(RunLimit))
    /\ WF_vars(\E f \in pendingFrames : Hosted /\ schedulerLoop(f))
    /\ WF_vars(\E i \in activeIntervals : Hosted /\ durationTick(i))

\* BeatCountdownTimer.set60Bpm() of app.js
set60Bpm == updateBpm(60)

\* BeatCountdownTimer.toggleStopResume() of app.js, from the Stop/Resume button
toggleStopResume == IF isRunning THEN stopCountdown ELSE resumeCountdown

\* One session whose beats outlast its duration: started when the clock reads
\* 0 and slowed to 60 beats a minute at once; once the duration has run out it
\* may be stopped and resumed (the clock reading at which a stopped session is
\* resumed makes no difference to it)
NextSlow ==
    \/ \E d \in Durations :
          calls = 0 /\ Called /\ startCountdown(d, startingBpm) /\ UNCHANGED openVars
    \/ op = "start" /\ Called /\ set60Bpm
    \/ calls > 1 /\ isRunning /\ Hosted /\ Advance(SlowLimit)
    \/ \E f \in pendingFrames : calls > 1 /\ Hosted /\ schedulerLoop(f)
    \/ \E i \in activeIntervals : Hosted /\ durationTick(i)
    \/ remainingTimeSeconds <= 0 /\ calls > 1 /\ calls <= MaxCalls
          /\ calls' = calls + 1 /\ toggleStopResume

SpecSlow == Init /\ [][NextSlow]_vars

\* The tempo methods on a session that is not running: the state the
\* constructor leaves, or a session of one minute started at startingBpm and
\* stopped with c beats and r seconds left at tempo b (the duration runs out
\* before the beats when the tempo was lowered or the beats were suppressed)
Paused(c, r, b) ==
    /\ countdown = c /\ originalCountdown = calculateRequiredBeats(60, startingBpm)
    /\ targetDurationMinutes = 1 /\ remainingTimeSeconds = r
    /\ bpm = b /\ isRunning = FALSE /\ isDisabled = FALSE
    /\ animationFrameId = 0 /\ timerInterval = 0 /\ disableTimeout = 0
    /\ scheduledBeats = <<>> /\ scheduledVisualBeats = <<>>
    /\ nextBeatTime = 0 /\ beatInterval = BeatIntervalOf(startingBpm) /\ startTime = 0
    /\ now = 0 /\ pendingFrames = {} /\ activeIntervals = {}
    /\ pendingTimeouts = {} /\ resetTimeouts = 0
    /\ op = "init" /\ calls = 0 /\ completions = 0 /\ snap = NoSnap
    /\ lastReleasedTime = -1 /\ releaseOrdered = TRUE /\ countdownAtDisable = -1
    /\ returned = 0 /\ beatSignals = Quiet
    /\ audioContext = TRUE /\ disableBtn = FALSE
    /\ BeatCountdownTimerConstructed

InitTempo ==
    \/ Init
    \/ \E c \in PausedCountdowns, r \in PausedSeconds, b \in PausedBpms : Paused(c, r, b)

NextTempo ==
    \/ Called /\ setToRequiredBpm
    \/ Called /\ multiplyBpm
    \/ Called /\ divideBpm
    \/ \E x \in AnyBpms : Called /\ updateBpm(x)

SpecTempo == InitTempo /\ [][NextTempo]_vars

\* BeatCountdownTimer.applyBpmChange(bpm) of app.js
applyBpmChange(b) == updateBpm(b)

\* BeatCountdownTimer.increaseBPM() of app.js: Math.min(200, bpm + 1)
increaseBPM == updateBpm(MathMin(maxTempo, bpm + 1))

\* BeatCountdownTimer.decreaseBPM() of app.js: Math.max(15, bpm - 1)
decreaseBPM == updateBpm(MathMax(MIN_BPM, bpm - 1))

\* The tempo controls on a session that is not running: the slider (its value
\* clamped by updateBpmFromPosition), the +1 / -1 controls and the x2 / :2
\* buttons
NextControls ==
    \/ \E x \in SliderBpms : Called /\ applyBpmChange(clampBpm(x))
    \/ Called /\ increaseBPM
    \/ Called /\ decreaseBPM
    \/ Called /\ multiplyBpm
    \/ Called /\ divideBpm

SpecControls == InitTempo /\ [][NextControls]_vars

-----------------------------------------------------------------------------
\* BeatCountdownTimer (app.js): the opening-sound-2 sequence

\* an operation of BeatCountdownTimer that leaves the TimerManager alone
TimerUntouched ==
    /\ op' = "other" /\ beatSignals' = Quiet
    /\ UNCHANGED <<progVars, hostVars, completions, snap, lastReleasedTime, releaseOrdered,
                   countdownAtDisable, returned>>

\* cancelAnimationFrame(this.openingSound2AnimationFrameId)
CancelOpeningFrame(frames) == {f \in frames : f.id # openingSound2AnimationFrameId}

\* stopAllOpeningSounds(): the audio elements are dropped; the sequence is
\* stopped only "if running"; the timeout of startOpeningSound2Sequence has
\* no handle to clear
stopAllOpeningSounds ==
    /\ openingSound2Audio' = FALSE
    /\ IF openingSound2IsRunning
       THEN /\ openingSound2IsRunning' = FALSE
            /\ openingFrames' = CancelOpeningFrame(openingFrames)
            /\ openingSound2AnimationFrameId' = 0
       ELSE UNCHANGED <<openingSound2IsRunning, openingFrames, openingSound2AnimationFrameId>>
    /\ openingStopped' = TRUE
    /\ UNCHANGED <<openingSound2VisualCount, openingSound2RemainingBeats,
                   openingSound2NextBeatTime, openingTimeouts, wsVars>>
    /\ TimerUntouched

\* playOpeningSound2(): stopAllOpeningSounds, new Audio(...).play(), then
\* startOpeningSound2Sequence(), which reads the total beats of the setup
\* panel and sets the 7200 ms timeout
playOpeningSound2(totalBeatsValue) ==
    /\ openingSound2Audio' = TRUE
    /\ IF openingSound2IsRunning
       THEN /\ openingSound2IsRunning' = FALSE
            /\ openingFrames' = CancelOpeningFrame(openingFrames)
            /\ openingSound2AnimationFrameId' = 0
       ELSE UNCHANGED <<openingSound2IsRunning, openingFrames, openingSound2AnimationFrameId>>
    /\ openingSound2RemainingBeats' = totalBeatsValue
    /\ openingTimeouts' = openingTimeouts + 1
    /\ openingStopped' = FALSE
    /\ UNCHANGED <<openingSound2VisualCount, openingSound2NextBeatTime, wsVars>>
    /\ TimerUntouched

\* the timeout of startOpeningSound2Sequence fires:
\* startOpeningSound2VisualSequence() and startOpeningSound2VisualScheduling()
startOpeningSound2VisualSequence ==
    /\ openingTimeouts > 0
    /\ openingTimeouts' = openingTimeouts - 1
    /\ openingSound2VisualCount' = openingVisualBeats
    /\ openingSound2IsRunning' = TRUE
    /\ openingSound2NextBeatTime' = getCurrentTime
    /\ LET r == RequestFrame(openingFrames)
       IN  /\ openingFrames' = r.frames
           /\ openingSound2AnimationFrameId' = r.id
    /\ UNCHANGED <<openingSound2Audio, openingSound2RemainingBeats, openingStopped, wsVars>>
    /\ TimerUntouched

\* openingSound2VisualSchedulerLoop(), the callback of frame f; the last
\* visual beat calls startRegularTimerAfterVisualSequence()
openingSound2VisualSchedulerLoop(f) ==
    /\ f \in openingFrames
    /\ LET served == openingFrames \ {f}
           again  == RequestFrame(served)
       IN  IF ~openingSound2IsRunning
           THEN /\ openingFrames' = served
                /\ UNCHANGED <<openingSound2Audio, openingSound2IsRunning,
                               openingSound2VisualCount, openingSound2RemainingBeats,
                               openingSound2NextBeatTime, openingSound2AnimationFrameId,
                               openingTimeouts, openingStopped, wsVars>>
                /\ TimerUntouched
           ELSE IF getCurrentTime >= openingSound2NextBeatTime /\ openingSound2VisualCount > 0
           THEN /\ openingSound2RemainingBeats' = openingSound2RemainingBeats - 1
                /\ openingSound2NextBeatTime' = openingSound2NextBeatTime + openingSound2BeatInterval
                /\ openingSound2VisualCount' = openingSound2VisualCount - 1
                /\ UNCHANGED <<openingSound2Audio, openingTimeouts, openingStopped>>
                /\ IF openingSound2VisualCount - 1 <= 0
                   THEN /\ openingSound2IsRunning' = FALSE
                        \* startRegularTimerAfterVisualSequence()
                        /\ openingFrames' = {g \in served : g.id # openingSound2AnimationFrameId}
                        /\ openingSound2AnimationFrameId' = 0
                        /\ \E durationValue \in Durations :
                              startCountdown(durationValue, startingBpm)
                   ELSE /\ openingFrames' = again.frames
                        /\ openingSound2AnimationFrameId' = again.id
                        /\ UNCHANGED <<openingSound2IsRunning, wsVars>>
                        /\ TimerUntouched
           ELSE /\ openingFrames' = again.frames
                /\ openingSound2AnimationFrameId' = again.id
                /\ UNCHANGED <<openingSound2Audio, openingSound2IsRunning,
                               openingSound2VisualCount, openingSound2RemainingBeats,
                               openingSound2NextBeatTime, openingTimeouts, openingStopped,
                               wsVars>>
                /\ TimerUntouched

\* the clock moves on while no frame of the opening sequence waits too long
AdvanceOpening(limit) ==
    /\ \A f \in openingFrames : now - f.since < MaxLag * ClockStep
    /\ Advance(limit)

OpeningLimit == openingVisualBeats * TicksPerSecond + RunSlack * ClockStep

\* Opening sound 2 is played once when the clock reads 0; the operator may
\* press the button that stops the opening sounds at any moment; the sequence
\* starts the regular timer, whose callbacks then run
NextOpening ==
    \/ \E t \in EnteredTotals : calls = 0 /\ Called /\ playOpeningSound2(t)
    \/ calls > 0 /\ Called /\ stopAllOpeningSounds
    \/ Hosted /\ startOpeningSound2VisualSequence
    \/ \E f \in openingFrames : Hosted /\ openingSound2VisualSchedulerLoop(f)
    \/ calls > 0 /\ Hosted /\ AdvanceOpening(OpeningLimit)
    \/ \E f \in pendingFrames : Hosted /\ schedulerLoop(f) /\ UNCHANGED openVars
    \/ \E i \in activeIntervals : Hosted /\ durationTick(i)

SpecOpening == Init /\ [][NextOpening]_vars

-----------------------------------------------------------------------------
\* BeatCountdownTimer (app.js): the WebSocket to the display devices

\* Math.pow(2, n)
RECURSIVE Pow2(_)
Pow2(n) == IF n <= 0 THEN 1 ELSE 2 * Pow2(n - 1)

ReconnectExhaustedLate == wsReconnectAttempts > maxWsReconnectAttempts

\* scheduleWebSocketReconnect(): "Max WebSocket reconnection attempts reached"
ReconnectExhausted == wsReconnectAttempts >= maxWsReconnectAttempts

\* scheduleWebSocketReconnect(), on the timeouts still pending
scheduleWebSocketReconnect(timeouts) ==
    IF ReconnectExhausted
    THEN /\ wsTimeouts' = timeouts
         /\ UNCHANGED <<wsReconnectAttempts, wsReconnectInterval>>
    ELSE LET id    == NewId({t.id : t \in timeouts})
             delay == MathMin(1000 * Pow2(wsReconnectAttempts + 1), maxWsReconnectDelay)
         IN  /\ wsReconnectAttempts' = wsReconnectAttempts + 1
             /\ wsTimeouts' = timeouts \cup {[id |-> id, delay |-> delay]}
             /\ wsReconnectInterval' = id

\* initializeWebSocket(): new WebSocket(...) gives a connecting socket, or
\* throws and the catch block schedules a reconnection
initializeWebSocket(timeouts) ==
    /\ \/ /\ ws' = "connecting"
          /\ wsTimeouts' = timeouts
          /\ UNCHANGED <<wsReconnectAttempts, wsReconnectInterval>>
       \/ /\ ws' = ws
          /\ scheduleWebSocketReconnect(timeouts)
    /\ UNCHANGED openVars
    /\ TimerUntouched

\* initialize(): the first initializeWebSocket()
initialize ==
    /\ ws = "null" /\ wsReconnectAttempts = 0 /\ wsTimeouts = {}
    /\ initializeWebSocket(wsTimeouts)

\* the timeout t of scheduleWebSocketReconnect fires
wsReconnect(t) ==
    /\ t \in wsTimeouts
    /\ initializeWebSocket(wsTimeouts \ {t})

\* ws.onopen
wsOnOpen ==
    /\ ws = "connecting"
    /\ ws' = "open"
    /\ wsReconnectAttempts' = 0
    /\ IF wsReconnectInterval # 0
       THEN /\ wsTimeouts' = {t \in wsTimeouts : t.id # wsReconnectInterval}
            /\ wsReconnectInterval' = 0
       ELSE UNCHANGED <<wsTimeouts, wsReconnectInterval>>
    /\ UNCHANGED openVars
    /\ TimerUntouched

\* ws.onclose, of a socket that was connecting (the attempt failed) or open
wsOnClose ==
    /\ ws \in {"connecting", "open"}
    /\ ws' = "closed"
    /\ scheduleWebSocketReconnect(wsTimeouts)
    /\ UNCHANGED openVars
    /\ TimerUntouched

\* The page while the clock reads 0: the WebSocket connects, fails, reconnects
\* and drops at any moment, and the operator plays and stops opening sound 2
NextApp ==
    \/ Hosted /\ initialize
    \/ \E t \in wsTimeouts : Hosted /\ wsReconnect(t)
    \/ Hosted /\ wsOnOpen
    \/ Hosted /\ wsOnClose
    \/ \E t \in EnteredTotals : calls = 0 /\ Called /\ playOpeningSound2(t)
    \/ calls > 0 /\ Called /\ stopAllOpeningSounds
    \/ Hosted /\ startOpeningSound2VisualSequence
    \/ \E f \in openingFrames : Hosted /\ openingSound2VisualSchedulerLoop(f)

SpecApp == Init /\ [][NextApp]_vars

\* One session and its suppression: started once when the clock reads 0, then
\* the Disable button, the tempo controls, Stop and Reset, in any order and at
\* any moment of the first MaxClockSteps half seconds
NextSuppress ==
    \/ \E d \in Durations :
          calls = 0 /\ Called /\ startCountdown(d, startingBpm) /\ UNCHANGED openVars
    \/ calls > 0 /\ Hosted /\ Advance(MaxTime)
    \/ \E f \in pendingFrames : Hosted /\ schedulerLoop(f)
    \/ \E i \in activeIntervals : Hosted /\ durationTick(i)
    \/ calls > 0 /\ Called /\ disableTimer
    \/ \E t \in pendingTimeouts : Hosted /\ enableTimer(t)
    \/ \E b \in TempoBpms : calls > 0 /\ Called /\ updateBpm(b)
    \/ calls > 0 /\ Called /\ stopCountdown
    \/ calls > 0 /\ Called /\ resetCountdown

SpecSuppress == Init /\ [][NextSuppress]_vars

\* the same, on a host that runs a timeout it was handed
SpecSuppressFair ==
    /\ SpecSuppress
    /\ WF_vars(\E t \in pendingTimeouts : Hosted /\ enableTimer(t))

\* One session run to completion, then the Reset button and the Start button
\* again, while the timeout that showCompletion() armed is pending or not
NextAgain ==
    \/ \E d \in Durations :
          (calls = 0 \/ (calls = 2 /\ ~isRunning)) /\ Called
              /\ startCountdown(d, startingBpm) /\ UNCHANGED openVars
    \/ calls > 0 /\ Hosted /\ Advance(RunLimit)
    \/ \E f \in pendingFrames : Hosted /\ schedulerLoop(f)
    \/ \E i \in activeIntervals : Hosted /\ durationTick(i)
    \/ calls = 1 /\ completions = 1 /\ Called /\ resetCountdown
    \/ Hosted /\ autoReset

SpecAgain == Init /\ [][NextAgain]_vars

\* The Start button of the setup panel, with whatever its fields hold, on a
\* page whose AudioContext was constructed or not ("Web Audio API not
\* supported": initializeAudio() catches the error and audioContext stays null)
InitStart == Constructed /\ audioContext \in BOOLEAN

\* BeatCountdownTimer.startCountdown() of app.js, from the Start button
StartButton(durationValue, totalBeatsValue, initialBpmValue) ==
    IF \/ durationValue < minDuration
       \/ totalBeatsValue < minTotalBeats \/ totalBeatsValue > maxTotalBeats
    THEN \* alert('Please enter a valid ...'); return
         /\ op' = "startRejected" /\ beatSignals' = Quiet
         /\ UNCHANGED <<progVars, hostVars, completions, snap, lastReleasedTime,
                        releaseOrdered, countdownAtDisable, returned, openVars, wsVars>>
    ELSE \* "Always start at 110 BPM regardless of input field value"
         startCountdown(durationValue, startingBpm) /\ UNCHANGED openVars

NextStart ==
    \/ \E d \in EnteredDurations, t \in EnteredTotals, b \in EnteredBpms :
          ~isRunning /\ Called /\ StartButton(d, t, b)
    \/ Hosted /\ Advance(MaxTime)
    \/ \E f \in pendingFrames : Hosted /\ schedulerLoop(f)
    \/ \E i \in activeIntervals : Hosted /\ durationTick(i)

SpecStart == InitStart /\ [][NextStart]_vars

----------------------------------------------------------------------------
\* Properties

\* C1: in a session that is started once and then driven only by the
\* scheduler loop and the one-second ticker, showCompletion is called exactly
\* once: never twice, and always before the clock is 2*MaxLag steps past the
\* end of the duration; when it is called countdown is 0, isRunning is false
\* and no frame callback is pending.
C1_CompletesExactlyOnce ==
    /\ completions <= 1
    /\ snap.fired => (snap.countdown = 0 /\ ~snap.isRunning /\ snap.loops = 0)
    /\ (calls = 1 /\ now > startTime + targetDurationMinutes * 60 * TicksPerSecond
                                     + 2 * MaxLag * ClockStep)
           => (completions = 1 /\ snap.fired)

C1_Witness == completions = 1 /\ snap.fired /\ snap.countdown = 0 /\ ~isRunning

\* C2: when showCompletion is called, scheduledBeats and scheduledVisualBeats
\* hold no unreleased event.
C2_QueuesEmptyAtCompletion ==
    snap.fired => (snap.queued = 0 /\ snap.queuedVisual = 0)

C4_NoDuplicateIndex ==
    \A i, j \in 1..Len(scheduledBeats) :
        i # j => scheduledBeats[i].beatNumber # scheduledBeats[j].beatNumber

\* C5: every event released by schedulerLoop has a scheduled time strictly
\* greater than that of the event released before it.
C5_ReleasedIncreasing == releaseOrdered

\* C6: right after updateBpm(newBpm) on a running session at clock time now,
\* the time of the next beat to be scheduled lies in [now, now + 60/newBpm].
C6_NextBeatWithinInterval ==
    op \in {"updateBpm", "updateBpmDrop"} =>
        (now <= nextBeatTime /\ nextBeatTime <= now + beatInterval)

\* C7: no event that was queued before a tempo change on a running session
\* is in scheduledBeats or scheduledVisualBeats afterwards, so none can be
\* released by a later scheduler-loop tick.
C7_TempoChangeInvalidates ==
    /\ \A k \in 1..Len(scheduledBeats) : ~scheduledBeats[k].stale
    /\ \A k \in 1..Len(scheduledVisualBeats) : ~scheduledVisualBeats[k].stale

C7_Witness ==
    op = "updateBpmDrop" /\ isRunning /\ scheduledBeats = <<>> /\ scheduledVisualBeats = <<>>

\* C8: when the re-enable timeout ends a suppression during which no call
\* other than tempo changes was made, countdown is what it was at disableTimer.
C8_SuppressionConservesCountdown ==
    (op = "enable" /\ countdownAtDisable # -1) => countdown = countdownAtDisable

\* C9: stopCountdown on a session that is not running changes no field of
\* the scheduler and no callback registered with the host.
C9_StopIdempotent ==
    [][(~isRunning /\ stopCountdown)
          => UNCHANGED <<progVars, pendingFrames, activeIntervals, pendingTimeouts>>]_vars

C9_Witness == op = "stopAgain" /\ originalCountdown > 0 /\ ~isRunning /\ calls >= 2

\* C10: resumeCountdown on a running session changes none of countdown, the
\* two queues, nextBeatTime, remainingTimeSeconds, the pending frame
\* callbacks and the active one-second intervals.
C10_ResumeWhileRunningNoOp ==
    [][(isRunning /\ resumeCountdown)
          => UNCHANGED <<countdown, scheduledBeats, scheduledVisualBeats, nextBeatTime,
                         remainingTimeSeconds, pendingFrames, activeIntervals>>]_vars

\* C11: stopCountdown leaves countdown and originalCountdown as they are and
\* leaves the session not running; while the session is not running no
\* callback of the host (frame, one-second interval, re-enable timeout)
\* schedules or releases a beat, decrements remainingTimeSeconds or sets
\* isRunning again.
C11_StopHalts ==
    /\ [][stopCountdown => (~isRunning' /\ UNCHANGED <<countdown, originalCountdown>>)]_vars
    /\ [][(~isRunning /\ (\/ \E f \in pendingFrames : schedulerLoop(f)
                          \/ \E i \in activeIntervals : durationTick(i)
                          \/ \E t \in pendingTimeouts : enableTimer(t)))
             => UNCHANGED <<countdown, originalCountdown, scheduledBeats,
                            scheduledVisualBeats, nextBeatTime, lastReleasedTime,
                            remainingTimeSeconds, isRunning>>]_vars

\* C12: right after resetCountdown, isRunning and isDisabled are false,
\* countdown is originalCountdown, remainingTimeSeconds is
\* targetDurationMinutes*60, bpm is the initial tempo, and neither a
\* one-second interval nor a re-enable timeout is registered with the host.
C12_ResetYieldsInitialValues ==
    [][resetCountdown =>
          /\ ~isRunning' /\ ~isDisabled'
          /\ countdown' = originalCountdown'
          /\ remainingTimeSeconds' = targetDurationMinutes' * 60
          /\ bpm' = startingBpm
          /\ activeIntervals' = {}
          /\ pendingTimeouts' = {}]_vars

C14_NoTempoFromSentinel ==
    [][(remainingTimeSeconds <= 0 /\ setToRequiredBpm) => UNCHANGED <<bpm, beatInterval>>]_vars

C16_TempoWithinBounds == MIN_BPM <= bpm /\ bpm <= MAX_BPM

\* C17: disableTimer on a session that is not running or is already
\* suppressed changes no field of the scheduler and no callback registered
\* with the host and sends no onTimerDisabled; at most one re-enable timeout
\* is pending at any time.
C17_DisableNoOp ==
    /\ [](Cardinality(pendingTimeouts) <= 1)
    /\ [][((~isRunning \/ isDisabled) /\ disableTimer)
             => (UNCHANGED <<progVars, hostVars>> /\ op' # "disable")]_vars

C17_Witness ==
    /\ op = "disableNoOp" /\ isRunning /\ isDisabled
    /\ Cardinality(pendingTimeouts) = 1 /\ disableTimeout \in pendingTimeouts

\* C18: right after enableTimer ends a suppression at clock time now, the
\* next beat to be scheduled is at least one beat interval after now.
C18_FullIntervalAfterEnable ==
    op = "enable" => nextBeatTime >= now + beatInterval

\* C19: remainingTimeSeconds is never below 0.
C19_DurationNeverNegative == remainingTimeSeconds >= 0

\* C20: the one-second callback changes neither isRunning nor the beats and
\* fires no completion; with no time left and beats left, a tick of the
\* scheduler loop of a running session completes nothing, keeps the session
\* running and the loop going, releases the events that were due and
\* schedules the next beat when it falls within the lookahead; completion is
\* fired only with countdown 0.
C20_DurationEndDoesNotEndSession ==
    /\ [](snap.fired => snap.countdown = 0)
    /\ [][(\E i \in activeIntervals : durationTick(i))
             => UNCHANGED <<isRunning, completions, countdown, scheduledBeats,
                            scheduledVisualBeats, nextBeatTime, pendingFrames>>]_vars
    /\ [][(isRunning /\ remainingTimeSeconds <= 0 /\ countdown > 0
                /\ \E f \in pendingFrames : schedulerLoop(f))
             => /\ isRunning' /\ completions' = completions
                /\ pendingFrames' # {}
                /\ (nextBeatTime < now + lookaheadTime => countdown' < countdown)
                /\ \A k \in 1..Len(scheduledBeats) :
                      scheduledBeats[k].time <= now =>
                          \A j \in 1..Len(scheduledBeats') :
                              scheduledBeats'[j] # scheduledBeats[k]]_vars

C20_Witness ==
    /\ remainingTimeSeconds = 0 /\ isRunning /\ countdown > 0 /\ completions = 0
    /\ lastReleasedTime >= (targetDurationMinutes * 60 + 1) * TicksPerSecond

\* C21: input out of its bounds is clamped and never rejected: pressing Start
\* with a duration outside 1..999 or a tempo outside MIN_BPM..MAX_BPM starts
\* the session with the value brought to the nearest bound.
C21_OutOfBoundsClamped ==
    [][\A d \in EnteredDurations, t \in EnteredTotals, b \in EnteredBpms :
          (~isRunning /\ StartButton(d, t, b)
              /\ t >= minTotalBeats /\ t <= maxTotalBeats)
          => /\ isRunning'
             /\ targetDurationMinutes' = MathMax(minDuration, MathMin(maxDuration, d))
             /\ bpm' = clampBpm(b)]_vars

C23_EnteredTempoGoverns ==
    [][\A d \in EnteredDurations, t \in EnteredTotals, b \in EnteredBpms :
          (~isRunning /\ StartButton(d, t, b)
              /\ d >= minDuration /\ d <= maxDuration
              /\ t >= minTotalBeats /\ t <= maxTotalBeats
              /\ b >= MIN_BPM /\ b <= MAX_BPM)
          => /\ isRunning'
             /\ bpm' = b
             /\ originalCountdown' = CeilDiv(d * 60 * b, 60)]_vars

\* C24: the count shown drops by one per released beat: when a scheduler tick
\* releases the k-th beat of the session, the countdown that updateDisplay
\* reports for it is originalCountdown - k.
C24_DisplayedCountPerBeat ==
    [][\A f \in pendingFrames :
          (isRunning /\ schedulerLoop(f))
          => \A k \in 1..DueCount(scheduledVisualBeats) :
                updateDisplay.countdown
                    = originalCountdown - scheduledVisualBeats[k].beatNumber]_vars

\* C25: discarding queued events loses no beat: originalCountdown - countdown
\* is the number of beats released plus the number still queued.  None of
\* disableTimer, enableTimer, updateBpm, stopCountdown and resumeCountdown
\* releases a beat, so each of them leaves
\* originalCountdown - countdown - Len(scheduledBeats) as it was.
C25_DiscardLosesNoBeat ==
    [][(\/ disableTimer
        \/ \E t \in pendingTimeouts : enableTimer(t)
        \/ \E b \in TempoBpms : updateBpm(b)
        \/ stopCountdown
        \/ resumeCountdown)
       => originalCountdown' - countdown' - Len(scheduledBeats')
              = originalCountdown - countdown - Len(scheduledBeats)]_vars

\* C26: there is a single writer: at most one scheduler-loop callback and at
\* most one one-second ticker are active at any moment.
C26_SingleWriter ==
    Cardinality(pendingFrames) <= 1 /\ Cardinality(activeIntervals) <= 1

\* C27: a session started after the one before it was stopped and reset holds
\* no event of that session: right after the start, the queues hold exactly
\* the beats the new session has scheduled (originalCountdown - countdown of
\* them), none of them earlier than its start time.
C27_NoEventOfPreviousSession ==
    [][\A d \in Durations, b \in StartBpms :
          (/\ ~isRunning /\ originalCountdown > 0 /\ countdown = originalCountdown
           /\ startCountdown(d, b))
          => /\ Len(scheduledBeats') = originalCountdown' - countdown'
             /\ Len(scheduledVisualBeats') = originalCountdown' - countdown'
             /\ \A k \in 1..Len(scheduledBeats') :
                   scheduledBeats'[k].time >= startTime'
             /\ \A k \in 1..Len(scheduledVisualBeats') :
                   scheduledVisualBeats'[k].time >= startTime']_vars

\* C28: the auto-reset armed at a completion touches only the session that
\* completed: when it fires on a session started since (one that has not
\* completed), that session is neither stopped nor reset.
C28_AutoResetOwnSessionOnly ==
    [][(autoReset /\ completions = 0)
       => UNCHANGED <<isRunning, countdown, remainingTimeSeconds, bpm,
                      pendingFrames, activeIntervals>>]_vars

\* C29: triggerBeatAnimation is invoked once per released beat: the number of
\* its invocations equals the number of events released from scheduledBeats,
\* operation by operation and therefore in every state.
C29_OneSignalPerBeat ==
    beatSignals.invoked = beatSignals.released

\* C30: a scheduler tick at clock time now releases every queued event with
\* time <= now, in queue order and each once: the events it releases are the
\* first n of the queue, every one of them due, and no event that it leaves
\* in the queue is due.
C30_TickReleasesAllDue ==
    [][\A f \in pendingFrames :
          (isRunning /\ schedulerLoop(f))
          => \E n \in 0..Len(scheduledBeats) :
                /\ beatSignals'.released = n
                /\ \A k \in 1..n : scheduledBeats[k].time <= getCurrentTime
                /\ \A k \in (n + 1)..Len(scheduledBeats) :
                      scheduledBeats[k].time > getCurrentTime
                /\ Len(scheduledBeats') >= Len(scheduledBeats) - n
                /\ SubSeq(scheduledBeats', 1, Len(scheduledBeats) - n)
                      = SubSeq(scheduledBeats, n + 1, Len(scheduledBeats))]_vars

\* C31: scheduleBeats, called by a scheduler tick at clock time now, appends
\* as many events as it takes off countdown (at most countdown), each at the
\* then-current nextBeatTime, with consecutive indices from
\* originalCountdown - countdown + 1 and times one beatInterval apart; when
\* it returns, countdown = 0 or nextBeatTime >= now + lookaheadTime.
C31_ScheduleBeatsFills ==
    [][\A f \in pendingFrames :
          (isRunning /\ ~SessionOver /\ schedulerLoop(f))
          => LET kept == Len(scheduledBeats) - DueCount(scheduledBeats)
                 n    == countdown - countdown'
             IN  /\ n >= 0 /\ n <= countdown
                 /\ Len(scheduledBeats') = kept + n
                 /\ Len(scheduledVisualBeats')
                       = Len(scheduledVisualBeats) - DueCount(scheduledVisualBeats) + n
                 /\ \A j \in 1..n :
                       /\ scheduledBeats'[kept + j].time
                             = nextBeatTime + (j - 1) * beatInterval
                       /\ scheduledBeats'[kept + j].beatNumber
                             = originalCountdown - countdown + j
                 /\ nextBeatTime' = nextBeatTime + n * beatInterval
                 /\ (countdown' = 0 \/ nextBeatTime' >= getCurrentTime + lookaheadTime)]_vars

\* a tick has scheduled two beats in one call, and more are left
C31_Witness ==
    /\ isRunning /\ countdown > 0 /\ Len(scheduledBeats) >= 2
    /\ scheduledBeats[2].time = scheduledBeats[1].time + beatInterval
    /\ scheduledBeats[2].beatNumber = scheduledBeats[1].beatNumber + 1
    /\ nextBeatTime >= getCurrentTime + lookaheadTime

\* C32: while the session is running nextBeatTime never goes down: neither a
\* scheduler tick nor updateBpm, disableTimer or enableTimer on a running
\* session lowers it.
C32_NextBeatTimeMonotone ==
    [][(/\ isRunning /\ isRunning'
        /\ \/ \E f \in pendingFrames : schedulerLoop(f)
           \/ \E b \in TempoBpms : updateBpm(b)
           \/ disableTimer
           \/ \E t \in pendingTimeouts : enableTimer(t))
       => nextBeatTime' >= nextBeatTime]_vars

\* C33: progress: with the clock advancing, the frames served and no call of
\* the interface, a running session that is not suppressed and has beats left
\* comes to countdown = 0, shows its completion and halts.
C33_SessionCompletes ==
    (isRunning /\ ~isDisabled /\ countdown > 0)
        ~> (op = "complete" /\ countdown = 0 /\ ~isRunning /\ pendingFrames = {})

\* the session of 15 beats has completed, a frame after its last beat was scheduled
C33_Witness ==
    /\ op = "complete" /\ originalCountdown = 15 /\ countdown = 0
    /\ ~isRunning /\ pendingFrames = {} /\ now >= 56 * TicksPerSecond

\* C34: a suppression ends: whenever isDisabled is true it is false again
\* later (the re-enable timeout, or a stop or reset before it), and right
\* after the re-enable by the timeout the session is running with its
\* scheduler loop requested.
C34_SuppressionEnds ==
    /\ isDisabled ~> ~isDisabled
    /\ [](op = "enable"
            => /\ ~isDisabled /\ isRunning
               /\ \E f \in pendingFrames : f.id = animationFrameId)

\* the timeout has ended a suppression and the loop is requested again
C34_Witness ==
    /\ op = "enable" /\ ~isDisabled /\ isRunning /\ countdownAtDisable >= 0
    /\ \E f \in pendingFrames : f.id = animationFrameId /\ f.since = now

\* C35: during a suppression only the duration advances: while isDisabled
\* stays true no beat is scheduled or released (countdown and both queues
\* stay as they are, also across a tempo change), and every one-second tick
\* takes a second off remainingTimeSeconds.
C35_OnlyDurationAdvances ==
    [][(isDisabled /\ isDisabled')
       => /\ countdown' = countdown
          /\ scheduledBeats' = scheduledBeats
          /\ scheduledVisualBeats' = scheduledVisualBeats
          /\ beatSignals'.released = 0
          /\ ((\E i \in activeIntervals : durationTick(i))
                => remainingTimeSeconds' = remainingTimeSeconds - 1)]_vars

\* C36: the suppression notifications are paired: whenever isDisabled is
\* false, the Disable button is enabled.
C36_DisableButtonFollows ==
    ~isDisabled => ~disableBtn

\* C37: the tempo controls are monotone: at every tempo of the slider range
\* MIN_BPM..MAX_BPM, increaseBPM and multiplyBpm give a tempo that is not
\* lower, and decreaseBPM and divideBpm give one that is not higher.
C37_TempoControlsMonotone ==
    [][(bpm >= MIN_BPM /\ bpm <= MAX_BPM)
       => /\ (increaseBPM \/ multiplyBpm) => bpm' >= bpm
          /\ (decreaseBPM \/ divideBpm) => bpm' <= bpm]_vars

\* C38: once stopAllOpeningSounds has been called, in whatever phase of the
\* opening-sound-2 sequence, no visual opening beat occurs afterwards (the
\* remaining beats are not counted down) and the sequence does not start the
\* regular timer
C38_StopCancelsSequence ==
    [][openingStopped => /\ openingSound2RemainingBeats' = openingSound2RemainingBeats
                         /\ ~(isRunning' /\ ~isRunning)]_vars

\* C39: wsReconnectAttempts never exceeds maxWsReconnectAttempts; once it has
\* reached that number no further reconnection is scheduled; and the opening
\* of a socket resets the counter to 0
C39_ReconnectBounded ==
    /\ [](wsReconnectAttempts <= maxWsReconnectAttempts)
    /\ [][/\ wsReconnectAttempts >= maxWsReconnectAttempts => wsTimeouts' \subseteq wsTimeouts
          /\ (ws # "open" /\ ws' = "open") => wsReconnectAttempts' = 0]_vars

\* the tenth reconnection has failed and nothing is scheduled any more
C39_Witness ==
    /\ wsReconnectAttempts = maxWsReconnectAttempts
    /\ ws = "closed"
    /\ wsTimeouts = {}
====
